---- MODULE Spec2Model ----
(***************************************************************************)
(* Model of streamlit_app.py, the Bikeroom sales dashboard.                *)
(*                                                                         *)
(* One script run is one atomic step: load_data() (memoised by             *)
(* st.cache_data), the two sidebar widgets, the boolean-mask filter, the   *)
(* KPIs, the three guarded aggregations and the transaction table.  The    *)
(* first run uses the widgets' defaults; every later run is triggered by   *)
(* the user changing the category multiselect or the price slider.         *)
(*                                                                         *)
(* Representation.                                                         *)
(*   - A DataFrame is a sequence of records (rows in frame order); the     *)
(*     pandas index labels are not modelled.                               *)
(*   - A Date is its day offset from 2024-01-01 (line 36 builds it that    *)
(*     way); 2024 is a leap year.                                          *)
(*   - Money is in whole dollars.  A quotient (a mean, the KPI ratio) is   *)
(*     an exact fraction <<n, d>> in lowest terms; <<0, 0>> is NaN and     *)
(*     <<1, 0>> is inf, the values numpy gives for x / 0.                  *)
(***************************************************************************)
EXTENDS Integers, Sequences, FiniteSets, TLC

VARIABLES
    cache,                \* st.cache_data store of load_data: <<>> or <<df>>
    gen_calls,            \* number of executions of the body of load_data
    started,              \* the session has run the script at least once
    granular_sales_df,    \* line 47
    selected_categories,  \* line 61 (a set: isin() reads it as one)
    min_price,            \* line 68
    filtered_df,          \* line 77
    total_revenue,        \* line 85
    total_units,          \* line 86
    denominator,          \* line 95: (total_units or 1)
    avg_price_per_unit,   \* line 95: the ratio shown by the third KPI
    n_transactions,       \* line 96: len(filtered_df) in the KPI delta
    computed,             \* aggregate variables assigned during this run
    price_trend,          \* line 110-111
    units_by_category,    \* line 141
    revenue_by_region,    \* line 161
    charts,               \* st.altair_chart calls of this run
    warnings,             \* st.warning calls of this run
    table_count           \* line 183: len(filtered_df) in the table caption

vars == <<cache, gen_calls, started, granular_sales_df, selected_categories,
          min_price, filtered_df, total_revenue, total_units, denominator,
          avg_price_per_unit, n_transactions, computed, price_trend,
          units_by_category, revenue_by_region, charts, warnings, table_count>>

----------------------------------------------------------------------------
(* Bounds and random draws *)

\* Rows generated by load_data (the source generates 1000).
NumRows == 2

\* Vocabularies of line 24-26.
models == <<"Speedster 3000", "Trail King Pro", "City Commuter E-3",
            "Gravel Explorer", "Aero Blade Race">>
categories == <<"Road", "Mountain", "City", "Electric", "BMX">>
regions == <<"North America", "Europe", "Asia", "Oceania">>

SeqRange(s) == {s[i] : i \in 1..Len(s)}

\* The values of the vocabularies that the draws of the model take.
ModelDraws == SeqRange(models) \cap {"City Commuter E-3"}
CategoryDraws == SeqRange(categories) \cap {"Road", "BMX"}
RegionDraws == SeqRange(regions) \cap {"North America", "Europe"}

\* np.random.normal(loc=1800, scale=700): unbounded; three draws of the
\* model, one below the clip range, one on a rounding tie, one above.
NormalDraws == {455, 1805, 6500}

\* np.random.randint(low, high): low <= x < high; the model draws the extremes.
randint(low, high) == {low, high - 1}

UnitsSoldDrawsFromZero == randint(0, 50)

UnitsSoldDraws == randint(1, 50)

\* np.random.randint(0, 365) day offsets; the draws of the model are
\* 2024-01-17 and 2024-03-17.
DateDraws == {d \in {16, 76} : 0 <= d /\ d < 365}

----------------------------------------------------------------------------
(* Arithmetic helpers *)

RECURSIVE GCD(_, _)
GCD(a, b) == IF b = 0 THEN a ELSE GCD(b, a % b)

NaN == <<0, 0>>
Inf == <<1, 0>>

\* n / d for n >= 0, d >= 0 as numpy float division evaluates it.
Divide(n, d) ==
    IF d = 0 THEN (IF n = 0 THEN NaN ELSE Inf)
    ELSE LET g == GCD(n, d) IN <<n \div g, d \div g>>

RECURSIVE SumSeq(_)
SumSeq(s) == IF s = <<>> THEN 0 ELSE Head(s) + SumSeq(Tail(s))

\* Series.sum(): 0 for an empty series.
SeriesSum(df, field) == SumSeq([i \in 1..Len(df) |-> df[i][field]])

\* Series.mean(): NaN for an empty series.
SeriesMean(df, field) == Divide(SeriesSum(df, field), Len(df))

\* np.round(x, -1): rint(x / 10) * 10, ties to the even multiple.
RoundToTens(x) ==
    LET q == x \div 10
        r == x % 10
    IN  IF r < 5 THEN 10 * q
        ELSE IF r > 5 THEN 10 * (q + 1)
        ELSE IF q % 2 = 0 THEN 10 * q ELSE 10 * (q + 1)

ClipUpperOnly(x, lo, hi) == IF x > hi THEN hi ELSE x

\* ndarray.clip(lo, hi)
Clip(x, lo, hi) == IF x < lo THEN lo ELSE IF x > hi THEN hi ELSE x

\* Price_USD of line 32: round first, clip second.
PriceOf(raw) == Clip(RoundToTens(raw), 500, 6000)

----------------------------------------------------------------------------
(* load_data, lines 15-44 *)

\* One row of the dict `data`, lines 28-37: every column is drawn
\* independently of the others.
DataRows ==
    [Bike_Model : ModelDraws,
     Category   : CategoryDraws,
     Price_USD  : {PriceOf(x) : x \in NormalDraws},
     Units_Sold : UnitsSoldDraws,
     Region     : RegionDraws,
     Date       : DateDraws]

\* Line 40: the derived column.
WithTotalSales(r) ==
    [Bike_Model      |-> r.Bike_Model,
     Category        |-> r.Category,
     Price_USD       |-> r.Price_USD,
     Units_Sold      |-> r.Units_Sold,
     Region          |-> r.Region,
     Date            |-> r.Date,
     Total_Sales_USD |-> r.Price_USD * r.Units_Sold]

RowOrders(n) ==
    {p \in [1..n -> 1..n] : \A i, j \in 1..n : i # j => p[i] # p[j]}

\* DataFrame.sort_values(field) with the default, unstable, sort kind: the
\* frames it can return are the orderings of the rows with the field
\* non-decreasing; rows that tie may come out in any order.
SortValues(df, field) ==
    {[i \in 1..Len(df) |-> df[p[i]]] :
        p \in {q \in RowOrders(Len(df)) :
                 \A i \in 1..(Len(df) - 1) : df[q[i]][field] <= df[q[i + 1]][field]}}

\* Lines 28-40: the frame built from the drawn rows, before the sort.
DataFrame(data) == [i \in 1..NumRows |-> WithTotalSales(data[i])]

CacheMissAlways(c) == FALSE

\* st.cache_data, line 15: load_data takes no argument, so the store holds
\* at most one entry; it is hit once it holds a value.
CacheHit(c) == c # <<>>

\* The random draws one call of load_data consumes: none on a hit, the
\* rows of `data` (lines 28-37) on a miss.
Draws == IF CacheHit(cache) THEN {<<>>} ELSE [1..NumRows -> DataRows]

\* The frames load_data() can return when its draws are `data`: on a hit
\* the stored frame, and the body does not run; on a miss the frame the
\* body builds (lines 21-44: draw, derive, sort by Date).
load_data(data) ==
    IF CacheHit(cache) THEN {cache[1]} ELSE SortValues(DataFrame(data), "Date")

\* The effect of the call returning df on the store: a miss runs the body
\* once more and stores its result.
StoreResult(df) ==
    /\ cache' = <<df>>
    /\ gen_calls' = IF CacheHit(cache) THEN gen_calls ELSE gen_calls + 1

----------------------------------------------------------------------------
(* Calendar of 2024, for resample('M') *)

DaysInMonth == <<31, 29, 31, 30, 31, 30, 31, 31, 30, 31, 30, 31>>

RECURSIVE DaysUpTo(_)
DaysUpTo(m) == IF m = 0 THEN 0 ELSE DaysInMonth[m] + DaysUpTo(m - 1)

\* Day offset of the first day of month m + 1 (0 for m = 0).
DaysBefore == [m \in 0..12 |-> DaysUpTo(m)]

\* Calendar month (1..12) of each day offset of the year.
MonthOfDay ==
    [d \in 0..365 |-> CHOOSE m \in 1..12 : DaysBefore[m - 1] <= d /\ d < DaysBefore[m]]

MonthOf(d) == MonthOfDay[d]

MonthStart(m) == DaysBefore[m - 1]
MonthEnd(m) == DaysBefore[m] - 1

----------------------------------------------------------------------------
(* Sidebar widgets, lines 61-73 *)

SetMin(S) == CHOOSE x \in S : \A y \in S : x <= y
SetMax(S) == CHOOSE x \in S : \A y \in S : x >= y

Column(df, field) == {df[i][field] : i \in 1..Len(df)}

\* granular_sales_df['Category'].unique(): options and default of the
\* multiselect.
CategoryOptions(df) == Column(df, "Category")

\* A slider position of the model besides the two ends of the range (the
\* slider moves in steps of 0.01 over the whole range).
SliderProbes == {1800}

SliderPositionsFixedRange(df) == SliderProbes \cup {500, 6000}

\* The values the slider can return: from the minimum to the maximum
\* Price_USD of the data set (lines 70-71).
SliderPositions(df) ==
    LET lo == SetMin(Column(df, "Price_USD"))
        hi == SetMax(Column(df, "Price_USD"))
    IN  {p \in SliderProbes \cup {lo, hi} : lo <= p /\ p <= hi}

\* Default of the slider, line 72.
SliderDefault(df) == SetMin(Column(df, "Price_USD"))

----------------------------------------------------------------------------
(* Filtering, lines 77-80 *)

KeepRowStrict(r, sel, mp) == r.Category \in sel /\ r.Price_USD > mp

\* The boolean mask of one row.
KeepRow(r, sel, mp) == r.Category \in sel /\ r.Price_USD >= mp

Filter(df, sel, mp) == SelectSeq(df, LAMBDA r : KeepRow(r, sel, mp))

EmptyNever(df) == FALSE

\* DataFrame.empty
Empty(df) == Len(df) = 0

OrOneOmitted(x) == x

\* Python's (x or 1), line 95.
OrOne(x) == IF x = 0 THEN 1 ELSE x

----------------------------------------------------------------------------
(* Aggregations, lines 107-111, 141, 161 *)

\* groupby() sorts the group keys: the vocabularies in string order.
CategoryOrder == <<"BMX", "City", "Electric", "Mountain", "Road">>
RegionOrder == <<"Asia", "Europe", "North America", "Oceania">>

RowsWhere(df, field, v) == SelectSeq(df, LAMBDA r : r[field] = v)

\* The keys of the groups of df, sorted: a key with no row has no group.
GroupKeys(df, field, order) ==
    SelectSeq(order, LAMBDA k : \E i \in 1..Len(df) : df[i][field] = k)

GroupByFirst(df, key, field, order) ==
    LET keys == GroupKeys(df, key, order)
    IN  [j \in 1..Len(keys) |->
            (key :> keys[j]) @@ (field :> RowsWhere(df, key, keys[j])[1][field])]

\* df.groupby(key)[field].sum().reset_index(): one row per group.
GroupBySum(df, key, field, order) ==
    LET keys == GroupKeys(df, key, order)
    IN  [j \in 1..Len(keys) |->
            (key :> keys[j]) @@ (field :> SeriesSum(RowsWhere(df, key, keys[j]), field))]

ResampleBinsOccupied(months) == months

\* resample('M') of one group: a bin for every calendar month from the
\* month of the group's first date to the month of its last date.
ResampleBins(months) == SetMin(months)..SetMax(months)

\* resample('M') labels a bin by the last day of its month.
BinLabel(m) == MonthEnd(m)

RECURSIVE SortedSeq(_)
SortedSeq(S) ==
    IF S = {} THEN <<>> ELSE <<SetMin(S)>> \o SortedSeq(S \ {SetMin(S)})

\* The resampled means of one Category group.
GroupTrend(df, c) ==
    LET g    == RowsWhere(df, "Category", c)
        bins == SortedSeq(ResampleBins({MonthOf(g[i].Date) : i \in 1..Len(g)}))
    IN  [j \in 1..Len(bins) |->
            [Category  |-> c,
             Date      |-> BinLabel(bins[j]),
             Avg_Price |-> SeriesMean(SelectSeq(g, LAMBDA r : MonthOf(r.Date) = bins[j]),
                                      "Price_USD")]]

RECURSIVE ConcatTrends(_, _)
ConcatTrends(df, keys) ==
    IF keys = <<>> THEN <<>>
    ELSE GroupTrend(df, Head(keys)) \o ConcatTrends(df, Tail(keys))

\* Lines 107-111: groupby('Category')['Price_USD'].resample('M').mean()
\* .reset_index(), Price_USD renamed to Avg_Price.
PriceTrend(df) == ConcatTrends(df, GroupKeys(df, "Category", CategoryOrder))

----------------------------------------------------------------------------
(* The script, lines 47-185 *)

WarnTrend == "No data matches the current filter criteria for charting."
WarnUnits == "No data for Units by Category."
WarnRevenue == "No data for Revenue by Region."

\* One run of the script on the frame df returned by load_data, with the
\* widgets returning sel and mp.
Script(df, sel, mp) ==
    LET f     == Filter(df, sel, mp)
        rev   == SeriesSum(f, "Total_Sales_USD")
        units == SeriesSum(f, "Units_Sold")
        some  == ~Empty(f)
    IN  /\ granular_sales_df' = df
        /\ selected_categories' = sel
        /\ min_price' = mp
        /\ filtered_df' = f
        /\ total_revenue' = rev
        /\ total_units' = units
        /\ denominator' = OrOne(units)
        /\ avg_price_per_unit' = Divide(rev, OrOne(units))
        /\ n_transactions' = Len(f)
        /\ price_trend' = IF some THEN PriceTrend(f) ELSE <<>>
        /\ units_by_category' =
              IF some THEN GroupBySum(f, "Category", "Units_Sold", CategoryOrder) ELSE <<>>
        /\ revenue_by_region' =
              IF some THEN GroupBySum(f, "Region", "Total_Sales_USD", RegionOrder) ELSE <<>>
        /\ computed' = IF some THEN {"price_trend", "units_by_category", "revenue_by_region"}
                       ELSE {}
        /\ charts' = IF some THEN {"chart_price", "chart_units", "pie"} ELSE {}
        /\ warnings' = IF some THEN {} ELSE {WarnTrend, WarnUnits, WarnRevenue}
        /\ table_count' = Len(f)

Init ==
    /\ cache = <<>>
    /\ gen_calls = 0
    /\ started = FALSE
    /\ granular_sales_df = <<>>
    /\ selected_categories = {}
    /\ min_price = 0
    /\ filtered_df = <<>>
    /\ total_revenue = 0
    /\ total_units = 0
    /\ denominator = 0
    /\ avg_price_per_unit = NaN
    /\ n_transactions = 0
    /\ computed = {}
    /\ price_trend = <<>>
    /\ units_by_category = <<>>
    /\ revenue_by_region = <<>>
    /\ charts = {}
    /\ warnings = {}
    /\ table_count = 0

\* The first run of a session: both widgets return their defaults.
FirstRun ==
    /\ ~started
    /\ started' = TRUE
    /\ \E data \in Draws : \E df \in load_data(data) :
          /\ StoreResult(df)
          /\ Script(df, CategoryOptions(df), SliderDefault(df))

\* The user changes the category multiselect; the script reruns.
ChangeCategories ==
    /\ started
    /\ started' = TRUE
    /\ \E data \in Draws : \E df \in load_data(data) :
          /\ StoreResult(df)
          /\ \E sel \in (SUBSET CategoryOptions(df)) \ {selected_categories} :
                Script(df, sel, min_price)

\* The user moves the price slider; the script reruns.
ChangeMinPrice ==
    /\ started
    /\ started' = TRUE
    /\ \E data \in Draws : \E df \in load_data(data) :
          /\ StoreResult(df)
          /\ \E mp \in SliderPositions(df) \ {min_price} :
                Script(df, selected_categories, mp)

Next == FirstRun \/ ChangeCategories \/ ChangeMinPrice

Spec == Init /\ [][Next]_vars

----------------------------------------------------------------------------
(* Properties *)

Rows(df) == {df[i] : i \in 1..Len(df)}
Count(df, r) == Cardinality({i \in 1..Len(df) : df[i] = r})
Prices(df) == {df[i].Price_USD : i \in 1..Len(df)}

\* The filtered records of category c dated in calendar month m.
InBucket(c, m) ==
    SelectSeq(filtered_df, LAMBDA r : r.Category = c /\ MonthOf(r.Date) = m)

\* The calendar months in which category c has filtered records.
MonthsOf(c) ==
    {MonthOf(filtered_df[i].Date) :
        i \in {k \in 1..Len(filtered_df) : filtered_df[k].Category = c}}

\* C1: the filtered data set holds exactly the records whose Category is
\* selected and whose Price_USD >= min_price, each as often as the data set
\* holds it and in the data set's order; with every category selected and
\* min_price at the data set's minimum price it is the whole data set.
C1_FilterExact ==
    started =>
      /\ \A r \in Rows(granular_sales_df) \cup Rows(filtered_df) :
            Count(filtered_df, r) =
               IF r.Category \in selected_categories /\ r.Price_USD >= min_price
               THEN Count(granular_sales_df, r) ELSE 0
      /\ \A i \in 1..(Len(filtered_df) - 1) :
            filtered_df[i].Date <= filtered_df[i + 1].Date
      /\ (/\ selected_categories = CategoryOptions(granular_sales_df)
          /\ min_price = SetMin(Prices(granular_sales_df)))
            => filtered_df = granular_sales_df

\* C1 witness: the threshold sits above the minimum on the price of a kept
\* record, and another record is dropped.
C1_Witness ==
    /\ started
    /\ min_price > SetMin(Prices(granular_sales_df))
    /\ \E i \in 1..Len(filtered_df) : filtered_df[i].Price_USD = min_price
    /\ Len(filtered_df) < Len(granular_sales_df)

\* C2 as claimed: price_trend has a row for a (Category, month) only if a
\* filtered record of that Category is dated in that month, and no row has
\* a null Avg_Price.
C2_OnlyOccupiedMonths ==
    \A j \in 1..Len(price_trend) :
       /\ InBucket(price_trend[j].Category, MonthOf(price_trend[j].Date)) # <<>>
       /\ price_trend[j].Avg_Price # NaN

\* C2 as amended: price_trend has exactly one row for a (Category, month)
\* when the month lies between the first and the last month in which the
\* Category has filtered records, and none otherwise; the row's Avg_Price
\* is null (NaN) exactly when the Category has no filtered record in that
\* month, and is never a zero standing in for a missing mean.
C2_RowsSpanFirstToLastMonth ==
    started =>
      \A c \in SeqRange(categories) : \A m \in 1..12 :
         LET rows == {j \in 1..Len(price_trend) :
                        /\ price_trend[j].Category = c
                        /\ MonthOf(price_trend[j].Date) = m}
         IN  /\ Cardinality(rows) =
                  IF /\ MonthsOf(c) # {}
                     /\ SetMin(MonthsOf(c)) <= m
                     /\ m <= SetMax(MonthsOf(c))
                  THEN 1 ELSE 0
             /\ \A j \in rows :
                  /\ (price_trend[j].Avg_Price = NaN) <=> (InBucket(c, m) = <<>>)
                  /\ price_trend[j].Avg_Price[1] = 0 => price_trend[j].Avg_Price = NaN

\* C2 witness: a row with a null Avg_Price between two months with records.
C2_Witness ==
    \E j \in 1..Len(price_trend) :
       /\ price_trend[j].Avg_Price = NaN
       /\ \E a, b \in MonthsOf(price_trend[j].Category) :
             a < MonthOf(price_trend[j].Date) /\ MonthOf(price_trend[j].Date) < b

\* C3: the ratio of the 'Average Price per Unit' KPI is always a number;
\* with total_units = 0 the denominator is 1 and the ratio is total_revenue,
\* otherwise the ratio is total_revenue / total_units.
C3_DivisionGuard ==
    started =>
      /\ avg_price_per_unit[2] # 0
      /\ total_units = 0 =>
            denominator = 1 /\ avg_price_per_unit = <<total_revenue, 1>>
      /\ total_units # 0 =>
            /\ denominator = total_units
            /\ avg_price_per_unit[1] * total_units = avg_price_per_unit[2] * total_revenue

\* C3 witness: a run whose filtered records sold no unit.
C3_Witness == started /\ total_units = 0 /\ avg_price_per_unit[2] = 1

\* C4: once load_data has returned, every later run reads the same data set
\* in the same order, the body of load_data does not run again, and no run
\* changes the stored data set.
C4_CachedDatasetReused ==
    /\ [](started => gen_calls = 1 /\ cache = <<granular_sales_df>>)
    /\ [][started => /\ granular_sales_df' = granular_sales_df
                     /\ cache' = cache
                     /\ gen_calls' = gen_calls]_vars

\* C4 witness: a run after both widgets have been changed.
C4_Witness ==
    /\ started
    /\ gen_calls = 1
    /\ selected_categories # CategoryOptions(granular_sales_df)
    /\ min_price # SliderDefault(granular_sales_df)

\* C5: every record of the data set has Price_USD in [500, 6000] and a
\* multiple of 10, and Units_Sold in [1, 49].
C5_GeneratedBounds ==
    \A i \in 1..Len(granular_sales_df) :
       /\ 500 <= granular_sales_df[i].Price_USD
       /\ granular_sales_df[i].Price_USD <= 6000
       /\ granular_sales_df[i].Price_USD % 10 = 0
       /\ 1 <= granular_sales_df[i].Units_Sold
       /\ granular_sales_df[i].Units_Sold <= 49

\* C5 witness: a data set holding a draw clipped from below and one
\* clipped from above.
C5_Witness ==
    /\ started
    /\ PriceOf(SetMin(NormalDraws)) \in Prices(granular_sales_df)
    /\ PriceOf(SetMax(NormalDraws)) \in Prices(granular_sales_df)
    /\ SetMin(NormalDraws) < 500 /\ SetMax(NormalDraws) > 6000

\* C6: the per-Region sums of Total_Sales_USD add up to total_revenue and
\* the per-Category sums of Units_Sold add up to total_units; every
\* filtered record belongs to exactly one group of each aggregation.
C6_GroupingConservesTotals ==
    started =>
      /\ SeriesSum(revenue_by_region, "Total_Sales_USD") = total_revenue
      /\ SeriesSum(units_by_category, "Units_Sold") = total_units
      /\ total_revenue = SeriesSum(filtered_df, "Total_Sales_USD")
      /\ \A i \in 1..Len(filtered_df) :
            /\ Cardinality({j \in 1..Len(revenue_by_region) :
                  revenue_by_region[j].Region = filtered_df[i].Region}) = 1
            /\ Cardinality({j \in 1..Len(units_by_category) :
                  units_by_category[j].Category = filtered_df[i].Category}) = 1

\* C6 witness: two Region groups and two Category groups.
C6_Witness ==
    /\ started
    /\ Len(revenue_by_region) = 2
    /\ Len(units_by_category) = 2

\* C7: when no record satisfies both predicates the filtered data set is
\* empty, no aggregation is executed, each chart section shows its warning
\* and no chart, and the KPIs and the table report 0 transactions.
C7_EmptyResultRendered ==
    (/\ started
     /\ \A i \in 1..Len(granular_sales_df) :
           ~(/\ granular_sales_df[i].Category \in selected_categories
             /\ granular_sales_df[i].Price_USD >= min_price))
      => /\ filtered_df = <<>>
         /\ computed = {}
         /\ price_trend = <<>> /\ units_by_category = <<>> /\ revenue_by_region = <<>>
         /\ charts = {}
         /\ warnings = {WarnTrend, WarnUnits, WarnRevenue}
         /\ n_transactions = 0
         /\ table_count = 0
         /\ total_revenue = 0 /\ total_units = 0

\* C7 witness: a run that rendered the three warnings.
C7_Witness == started /\ Cardinality(warnings) = 3 /\ table_count = 0

\* C8: every row of price_trend is keyed by the first day of the calendar
\* month that contains its records' Date (a record dated 2024-03-17 falls in
\* the row keyed 2024-03-01), and its Avg_Price is the mean of Price_USD
\* over the filtered records of its Category dated in that month.  The
\* code keys the row by the last day of the month (BinLabel), so the
\* property fails on the first run.
C8_KeyedByMonthStart ==
    \A j \in 1..Len(price_trend) :
       LET t == price_trend[j]
           b == InBucket(t.Category, MonthOf(t.Date))
       IN  /\ t.Date = MonthStart(MonthOf(t.Date))
           /\ t.Avg_Price[1] * Len(b) = t.Avg_Price[2] * SeriesSum(b, "Price_USD")

\* C9: total_units is 0 exactly when the filtered data set is empty; the
\* denominator is replaced by 1 exactly then, and then total_revenue and
\* the ratio are 0.
C9_GuardTakenIffEmpty ==
    started =>
      /\ (total_units = 0) <=> (filtered_df = <<>>)
      /\ (denominator # total_units) <=> (filtered_df = <<>>)
      /\ filtered_df = <<>> =>
            /\ denominator = 1
            /\ total_revenue = 0
            /\ avg_price_per_unit = <<0, 1>>

\* C9 witness: a run with an empty filtered data set, dividing by 1.
C9_Witness == started /\ filtered_df = <<>> /\ denominator = 1

\* C10: min_price never exceeds the data set's maximum price; with every
\* category selected the filtered data set is never empty, so it is empty
\* only when some category is deselected.
C10_AllSelectedNeverEmpty ==
    started =>
      /\ min_price <= SetMax(Prices(granular_sales_df))
      /\ min_price >= SetMin(Prices(granular_sales_df))
      /\ selected_categories = CategoryOptions(granular_sales_df) => filtered_df # <<>>
      /\ filtered_df = <<>> =>
            /\ selected_categories \subseteq CategoryOptions(granular_sales_df)
            /\ selected_categories # CategoryOptions(granular_sales_df)

\* C10 witness: every category selected and the slider at the maximum
\* price, above the minimum.
C10_Witness ==
    /\ started
    /\ selected_categories = CategoryOptions(granular_sales_df)
    /\ min_price = SetMax(Prices(granular_sales_df))
    /\ min_price > SetMin(Prices(granular_sales_df))
    /\ Len(filtered_df) < Len(granular_sales_df)

====
